---- MODULE Spec2Model ----
(***************************************************************************)
(* The runner of supercode-axum: main.rs consumes the stream               *)
(* "Server2Runner", runs every job through sandbox_service (service.rs)    *)
(* and publishes the result on "Runner2Server" from a spawned task that    *)
(* shares one producer behind a tokio Mutex.                               *)
(***************************************************************************)
EXTENDS Integers, Sequences, FiniteSets, TLC

\* ---- bounds of the model ------------------------------------------------
MaxMsgs == 2          \* messages the broker delivers in one run
MaxCmds == 2          \* commands of one job
MaxReleases == 2      \* releases applied in a row when release is checked alone

\* ---- small input sets ---------------------------------------------------
SubmitIds == {"s1", "s2"}
Images    == {"gcc:14.2", "nosuch:0"}
MsgIds    == 1..MaxMsgs
Uuids     == 1..MaxMsgs

\* service.rs:60-66, the closed enumeration ExitState
ExitState == {"Success", "RuntimeError", "TimeLimitExceeded",
              "MemoryLimitExceeded", "OtherError"}

\* states of the isolation runtime's single run the model distinguishes
LastStates == {"Success", "OtherError"}

VARIABLES
    sandboxExists,  \* Path::new(SANDBOX_FOLDER).exists()
    dirs,           \* the working directory: workspace name -> its files
    uuids,          \* the names Uuid::new_v4 has returned so far
    msgs,           \* every message the broker has delivered, in order
    inbox,          \* delivered messages the consumer has not yielded yet
    mainpc,         \* position of main's loop (and of sandbox_service)
    cur,            \* index of the message the loop is handling (0: none)
    tmp_folder,     \* sandbox_service's local tmp_folder (0: none)
    results,        \* sandbox_service's local results (<<>>: none)
    tasks,          \* the spawned publish tasks, by message index
    lock,           \* holder of the producer Mutex (0: free)
    outbound,       \* bodies the broker stored on "Runner2Server"
    phase,          \* per message: where its job stands
    ws,             \* per message: the workspace its job was given (0: none)
    started,        \* message indices in the order sandbox_service was called
    runs,           \* per message: invocations of the isolation runtime
    sends,          \* per message: send_with_confirm attempts
    run,            \* the last docker run: its job, exit status and results.yaml
    log             \* the workspace steps done for the job the loop handles

vars == <<sandboxExists, dirs, uuids, msgs, inbox, mainpc, cur, tmp_folder,
          results, tasks, lock, outbound, phase, ws, started, runs, sends,
          run, log>>

fsVars   == <<sandboxExists, dirs, uuids>>
pubVars  == <<tasks, lock, outbound, sends>>
histVars == <<run, log>>

\* ---- data ---------------------------------------------------------------

\* service.rs:51-56: a job's commands, told apart by their position
Commands(n) == [k \in 1..n |-> k]

\* service.rs:12-16, the jobs the model submits: a one-command job, a
\* job of MaxCmds commands under another submit_id, and a one-command job
\* whose image docker cannot run
FormData ==
    {[commands |-> Commands(1), image |-> "gcc:14.2", submit_id |-> "s1"],
     [commands |-> Commands(MaxCmds), image |-> "gcc:14.2", submit_id |-> "s2"],
     [commands |-> Commands(1), image |-> "nosuch:0", submit_id |-> "s1"]}

NoForm == [commands |-> <<>>, image |-> "", submit_id |-> ""]

\* a message body: the text of a FormData, or text that is no FormData
\* (bin/send.rs:29 sends "Hello World From Server")
Bodies == {[wellformed |-> TRUE, form |-> f] : f \in FormData}
            \cup {[wellformed |-> FALSE, form |-> NoForm]}

\* main.rs:66, serde_yaml::from_str::<FormData>
FromStrFormData(body) ==
    IF body.wellformed THEN [ok |-> TRUE, val |-> body.form]
                       ELSE [ok |-> FALSE, val |-> NoForm]

\* a name with no directory under it, and a directory fs::create_dir made
NoDir    == [exists |-> FALSE, sandbox |-> FALSE, commands |-> <<>>,
             results |-> <<>>, extra |-> {}]
EmptyDir == [NoDir EXCEPT !.exists = TRUE]

\* service.rs:109, what command.output() can return: the exit status of
\* docker, or an error when docker itself cannot be started
ExitKinds == {"success", "failure", "launch_error"}

\* no docker run yet
NoRun == [of |-> 0, exit |-> "none", text |-> <<>>]

Range(s) == {s[k] : k \in 1..Len(s)}

\* the process is running: main has neither panicked nor returned
Alive == mainpc \notin {"panicked", "ended"}

\* pcs at which main is inside sandbox_service
ServicePcs == {"service", "write", "exec", "read", "release", "parse"}

Terminal == {"Succeeded", "Dropped", "Panicked"}

TypeOK ==
    /\ sandboxExists \in BOOLEAN
    /\ DOMAIN dirs = Uuids
    /\ uuids \subseteq Uuids
    /\ Len(msgs) <= MaxMsgs
    /\ Range(inbox) \subseteq MsgIds
    /\ mainpc \in {"next", "panicked", "ended"} \cup ServicePcs
    /\ cur \in 0..MaxMsgs
    /\ tmp_folder \in {0} \cup Uuids
    /\ lock \in 0..MaxMsgs
    /\ \A i \in MsgIds : phase[i] \in {"None", "Received", "Dispatched"} \cup Terminal

Init ==
    /\ sandboxExists \in BOOLEAN
    /\ dirs = [d \in Uuids |-> NoDir]
    /\ uuids = {}
    /\ msgs = <<>>
    /\ inbox = <<>>
    /\ mainpc = "next"
    /\ cur = 0
    /\ tmp_folder = 0
    /\ results = <<>>
    /\ tasks = [i \in MsgIds |-> [st |-> "none", body |-> <<>>]]
    /\ lock = 0
    /\ outbound = <<>>
    /\ phase = [i \in MsgIds |-> "None"]
    /\ ws = [i \in MsgIds |-> 0]
    /\ started = <<>>
    /\ runs = [i \in MsgIds |-> 0]
    /\ sends = [i \in MsgIds |-> 0]
    /\ run = NoRun
    /\ log = <<>>

\* ---- the inbound stream -------------------------------------------------

\* the broker delivers one more message to the consumer's buffer
Deliver ==
    /\ Alive
    /\ Len(msgs) < MaxMsgs
    /\ \E b \in Bodies :
         msgs' = Append(msgs, [body |-> b])
    /\ inbox' = Append(inbox, Len(msgs) + 1)
    /\ phase' = [phase EXCEPT ![Len(msgs) + 1] = "Received"]
    /\ UNCHANGED <<fsVars, pubVars, histVars, mainpc, cur, tmp_folder, results,
                   ws, started, runs>>

\* a loop that polls the consumer whatever it is doing
ConsumerReadyAnywhere == Alive

\* main.rs:57, the loop is at consumer.next().await
ConsumerReady == mainpc = "next"

\* a consumer that yields the newest delivery
NewestDelivery(q) == q[Len(q)]

\* main.rs:57, the delivery consumer.next() yields
NextDelivery(q) == Head(q)

\* main.rs:57-69: pull the next delivery, decode it, parse it (unwrap
\* panics on a body that is no FormData) and call sandbox_service
ConsumerNext ==
    /\ ConsumerReady
    /\ inbox # <<>>
    /\ LET i == NextDelivery(inbox)
           p == FromStrFormData(msgs[i].body)
       IN  /\ inbox' = SelectSeq(inbox, LAMBDA x : x # i)
           /\ cur' = i
           /\ IF p.ok
                 THEN /\ mainpc' = "service"
                      /\ phase' = [phase EXCEPT ![i] = "Dispatched"]
                      /\ started' = Append(started, i)
                 ELSE /\ mainpc' = "panicked"
                      /\ phase' = [phase EXCEPT ![i] = "Panicked"]
                      /\ started' = started
    /\ log' = <<>>
    /\ UNCHANGED <<fsVars, pubVars, run, msgs, tmp_folder, results, ws, runs>>

\* main.rs:57 and 92: the stream ends, the loop exits and main returns
StreamEnd ==
    /\ mainpc = "next"
    /\ inbox = <<>>
    /\ mainpc' = "ended"
    /\ UNCHANGED <<fsVars, pubVars, histVars, msgs, inbox, cur, tmp_folder,
                   results, phase, ws, started, runs>>

\* ---- sandbox_service ----------------------------------------------------

\* the names no call has returned and no directory has
FreshUuids == {id \in Uuids : id \notin uuids /\ ~dirs[id].exists}

\* a generator that can repeat a name
UuidRepeating == Uuids

\* service.rs:85, the names Uuid::new_v4() can return: a version-4 UUID is
\* 122 random bits, so it repeats no earlier name and no existing one; the
\* names are interchangeable and the model takes the least unused one
UuidNewV4 == {id \in FreshUuids : \A o \in FreshUuids : id <= o}

\* the I/O calls of staging that can fail
StageFaults == {"none", "create_dir", "set_permissions", "copy_items"}

\* main leaves the job of message i with a panic
Panic(i) ==
    /\ mainpc' = "panicked"
    /\ phase' = [phase EXCEPT ![i] = "Panicked"]

\* a service that does not look for the template
TemplateNeverMissing == FALSE

\* service.rs:82, !Path::new(SANDBOX_FOLDER).exists()
TemplateMissing == ~sandboxExists

\* service.rs:82-96: the template check, the workspace name, create_dir
\* (unwrap), set_permissions (?) and copy_items (unwrap)
Stage ==
    /\ mainpc = "service"
    /\ IF TemplateMissing
          THEN /\ Panic(cur)
               /\ UNCHANGED <<dirs, uuids, tmp_folder, ws, log>>
          ELSE \E id \in UuidNewV4, fault \in StageFaults :
                 LET existed == dirs[id].exists
                     made    == IF existed THEN dirs[id] ELSE EmptyDir
                 IN  /\ uuids' = uuids \cup {id}
                     /\ ws' = [ws EXCEPT ![cur] = id]
                     /\ tmp_folder' = id
                     /\ CASE fault = "create_dir" ->
                               /\ ~existed
                               /\ Panic(cur)
                               /\ dirs' = dirs
                               /\ log' = log
                          [] fault = "set_permissions" ->
                               /\ dirs' = [dirs EXCEPT ![id] = made]
                               /\ mainpc' = "next"
                               /\ phase' = [phase EXCEPT ![cur] = "Dropped"]
                               /\ log' = log
                          [] \/ fault = "copy_items"
                             \/ (fault = "none" /\ (made.sandbox \/ ~sandboxExists)) ->
                               /\ dirs' = [dirs EXCEPT ![id] = made]
                               /\ Panic(cur)
                               /\ log' = log
                          [] OTHER ->
                               /\ dirs' = [dirs EXCEPT ![id] =
                                             [made EXCEPT !.sandbox = TRUE]]
                               /\ mainpc' = "write"
                               /\ phase' = phase
                               /\ log' = Append(log, "stage")
    /\ UNCHANGED <<sandboxExists, pubVars, run, msgs, inbox, cur, results,
                   started, runs>>

\* service.rs:100, serde_yaml::to_string(&commands): the text of
\* commands.yaml, tagged with the message whose commands it holds
CommandsYaml(i) ==
    [origin |-> i, cmds |-> FromStrFormData(msgs[i].body).val.commands]

\* service.rs:98-102: fs::write of commands.yaml (unwrap)
WriteCommands ==
    /\ mainpc = "write"
    /\ \E ok \in BOOLEAN :
         IF ok
            THEN /\ dirs' = [dirs EXCEPT ![tmp_folder].commands =
                                <<CommandsYaml(cur)>>]
                 /\ mainpc' = "exec"
                 /\ phase' = phase
                 /\ log' = Append(log, "write")
            ELSE /\ dirs' = dirs
                 /\ Panic(cur)
                 /\ log' = log
    /\ UNCHANGED <<sandboxExists, uuids, pubVars, run, msgs, inbox, cur,
                   tmp_folder, results, ws, started, runs>>

\* what the isolation runtime can leave as results.yaml
Shapes == {"absent", "malformed", "exact", "short", "long"}

\* the CommandResults the runtime writes for the commands file f: one per
\* command in order ("exact"), the last one missing ("short"), or one more
\* ("long"); cmd is the command an entry reports, 0 for none
RuntimeEntries(f, shape, st) ==
    LET n == Len(f.cmds)
        e(k) == [cmd |-> IF k <= n THEN f.cmds[k] ELSE 0,
                 state |-> IF k >= n THEN st ELSE "Success"]
        m == CASE shape = "short" -> n - 1
               [] shape = "long"  -> n + 1
               [] OTHER           -> n
    IN  [k \in 1..m |-> e(k)]

\* the text of results.yaml the runtime writes
ResultsYaml(f, shape, st) ==
    IF shape = "malformed"
       THEN [wellformed |-> FALSE, origin |-> f.origin, entries |-> <<>>]
       ELSE [wellformed |-> TRUE, origin |-> f.origin,
             entries |-> RuntimeEntries(f, shape, st)]

\* a service that removes the workspace before it reads results.yaml
AfterRunRemoveFirst == "release"

\* service.rs:109-110, the step after docker has exited
AfterRun == "read"

\* a service that returns Err unless docker exited with success
RunAcceptedOnSuccess(exit) == exit = "success"

\* service.rs:109, let _ = command.output(): whatever docker returned, the
\* service goes on to read results.yaml
RunAccepted(exit) == TRUE

\* service.rs:104-109: docker run on the workspace, waited for; its Result
\* is discarded. An image docker cannot run, or a docker that cannot be
\* started, leaves no results.yaml
DockerRun ==
    /\ mainpc = "exec"
    /\ runs' = [runs EXCEPT ![cur] = @ + 1]
    /\ log' = Append(log, "run")
    /\ LET d == dirs[tmp_folder]
           image == FromStrFormData(msgs[cur].body).val.image
       IN  \E shape \in Shapes, st \in LastStates, exit \in ExitKinds :
             LET after == IF shape = "absent" \/ d.commands = <<>>
                             THEN d
                             ELSE [d EXCEPT
                                     !.results = <<ResultsYaml(d.commands[1], shape, st)>>,
                                     !.extra = @ \cup {d.commands[1].origin}]
             IN  /\ image = "nosuch:0" => (shape = "absent" /\ exit = "failure")
                 /\ exit = "launch_error" => shape = "absent"
                 /\ shape # "exact" => st = "Success"
                 /\ dirs' = [dirs EXCEPT ![tmp_folder] = after]
                 /\ run' = [of |-> cur, exit |-> exit, text |-> after.results]
                 /\ IF RunAccepted(exit)
                       THEN /\ mainpc' = AfterRun
                            /\ phase' = phase
                       ELSE /\ mainpc' = "next"
                            /\ phase' = [phase EXCEPT ![cur] = "Dropped"]
    /\ UNCHANGED <<sandboxExists, uuids, pubVars, msgs, inbox, cur, tmp_folder,
                   results, ws, started>>

\* a service that parses and returns before it removes the workspace
AfterReadSkipRemove == "parse"

\* service.rs:110-111, the step after results.yaml was read
AfterRead == "release"

\* service.rs:110: fs::read_to_string of results.yaml (unwrap)
ReadResults ==
    /\ mainpc = "read"
    /\ IF dirs[tmp_folder].results = <<>>
          THEN /\ Panic(cur)
               /\ results' = results
               /\ log' = log
          ELSE /\ results' = dirs[tmp_folder].results
               /\ mainpc' = AfterRead
               /\ phase' = phase
               /\ log' = Append(log, "read")
    /\ UNCHANGED <<fsVars, pubVars, run, msgs, inbox, cur, tmp_folder, ws,
                   started, runs>>

\* a service that unwraps the result of remove_dir_all
AfterRemoveUnwrap(ok) == IF ok THEN "parse" ELSE "panicked"

\* service.rs:111, let _ = ...: the step after remove_dir_all, whatever
\* it returned
AfterRemove(ok) == "parse"

\* service.rs:111: let _ = fs::remove_dir_all(tmp_folder), its error
\* dropped; on a name with no directory the call is an error
RemoveDirAll ==
    /\ mainpc = "release"
    /\ \E ok \in BOOLEAN :
         /\ ~dirs[tmp_folder].exists => ~ok
         /\ dirs' = IF ok THEN [dirs EXCEPT ![tmp_folder] = NoDir] ELSE dirs
         /\ mainpc' = AfterRemove(ok)
    /\ log' = Append(log, "remove")
    /\ UNCHANGED <<sandboxExists, uuids, pubVars, run, msgs, inbox, cur,
                   tmp_folder, results, phase, ws, started, runs>>

\* a parse that takes any outcome but Success for an error
FromStrResultsSuccessOnly(text) ==
    [ok |-> text.wellformed /\ \A k \in 1..Len(text.entries) :
                                   text.entries[k].state = "Success",
     val |-> text]

\* service.rs:112, serde_yaml::from_str::<Vec<SandboxResult>>: every
\* ExitState is a value of the list
FromStrResults(text) == [ok |-> text.wellformed, val |-> text]

\* a ResponseData that carries the submit_id of the first message
ResponseDataStale(i, r) ==
    [submit_id |-> FromStrFormData(msgs[1].body).val.submit_id,
     sandbox_results |-> r.entries,
     origin |-> r.origin]

\* main.rs:75-78, the ResponseData of message i around the parsed results r
ResponseDataOf(i, r) ==
    [submit_id |-> FromStrFormData(msgs[i].body).val.submit_id,
     sandbox_results |-> r.entries,
     origin |-> r.origin]

\* service.rs:112 and main.rs:69-90: parse the results (unwrap), build the
\* ResponseData and spawn the task that publishes it
Return ==
    /\ mainpc = "parse"
    /\ IF FromStrResults(results[1]).ok
          THEN /\ tasks' = [tasks EXCEPT ![cur] =
                              [st |-> "waiting",
                               body |-> <<ResponseDataOf(cur, FromStrResults(results[1]).val)>>]]
               /\ mainpc' = "next"
               /\ phase' = [phase EXCEPT ![cur] = "Succeeded"]
          ELSE /\ tasks' = tasks
               /\ Panic(cur)
    /\ tmp_folder' = 0
    /\ results' = <<>>
    /\ UNCHANGED <<fsVars, histVars, lock, outbound, sends, msgs, inbox, cur,
                   ws, started, runs>>

\* ---- the publish tasks --------------------------------------------------

\* a lock that is granted while it is held
MutexFreeAlways == TRUE

\* main.rs:84-86, producer.lock().await can return
MutexFree == lock = 0

\* main.rs:84-87: the task takes the producer and starts send_with_confirm
Lock(i) ==
    /\ Alive
    /\ tasks[i].st = "waiting"
    /\ MutexFree
    /\ lock' = i
    /\ tasks' = [tasks EXCEPT ![i].st = "sending"]
    /\ sends' = [sends EXCEPT ![i] = @ + 1]
    /\ UNCHANGED <<fsVars, histVars, outbound, msgs, inbox, mainpc, cur,
                   tmp_folder, results, phase, ws, started, runs>>

\* main.rs:87-90: the broker stores the message and confirms; the guard drops
Confirm(i) ==
    /\ Alive
    /\ tasks[i].st = "sending"
    /\ outbound' = Append(outbound, tasks[i].body[1])
    /\ tasks' = [tasks EXCEPT ![i].st = "done"]
    /\ lock' = IF lock = i THEN 0 ELSE lock
    /\ UNCHANGED <<fsVars, histVars, sends, msgs, inbox, mainpc, cur,
                   tmp_folder, results, phase, ws, started, runs>>

\* a send awaited and unwrapped by the loop itself
TaskPanicInMain(pc) == "panicked"

\* main.rs:83-90, where main stands after a panic inside a spawned task:
\* tokio ends that task only
TaskPanic(pc) == pc

\* a task that goes back to waiting for the producer and sends again
SendFailRetry == "waiting"

\* main.rs:89, unwrap on the failed send: the task is over
SendFailState == "failed"

\* a guard that is not dropped when the task panics
UnwindGuardLeak(i) == i

\* main.rs:84-89, the Mutex after the panicking task unwound: the
\* MutexGuard is dropped, the lock is free
UnwindGuard(i) == 0

\* main.rs:87-89: the send fails, unwrap panics inside the task, the guard
\* drops as the task unwinds
SendFail(i) ==
    /\ Alive
    /\ tasks[i].st = "sending"
    /\ tasks' = [tasks EXCEPT ![i].st = SendFailState]
    /\ lock' = IF lock = i THEN UnwindGuard(i) ELSE lock
    /\ mainpc' = TaskPanic(mainpc)
    /\ UNCHANGED <<fsVars, histVars, outbound, sends, msgs, inbox, cur,
                   tmp_folder, results, phase, ws, started, runs>>

Next ==
    \/ Deliver
    \/ ConsumerNext
    \/ StreamEnd
    \/ Stage
    \/ WriteCommands
    \/ DockerRun
    \/ ReadResults
    \/ RemoveDirAll
    \/ Return
    \/ \E i \in MsgIds : Lock(i)
    \/ \E i \in MsgIds : Confirm(i)
    \/ \E i \in MsgIds : SendFail(i)

Spec == Init /\ [][Next]_vars

\* ---- a broker that confirms every send, tasks scheduled fairly -----------

\* the steps of main's loop and of sandbox_service
MainStep ==
    \/ ConsumerNext
    \/ Stage
    \/ WriteCommands
    \/ DockerRun
    \/ ReadResults
    \/ RemoveDirAll
    \/ Return

NextAcked ==
    \/ Deliver
    \/ StreamEnd
    \/ MainStep
    \/ \E i \in MsgIds : Lock(i)
    \/ \E i \in MsgIds : Confirm(i)

\* main.rs:13 and 83-90: the tokio runtime polls every spawned task that can
\* run, the tokio Mutex serves its waiters in order, and main runs on
FairSpec ==
    /\ Init
    /\ [][NextAcked]_vars
    /\ WF_vars(MainStep)
    /\ \A i \in MsgIds : SF_vars(Lock(i)) /\ WF_vars(Confirm(i))

\* ---- release applied to any name, staged or not --------------------------

\* the directories a workspace name can stand for
DirKinds ==
    {NoDir, EmptyDir,
     [EmptyDir EXCEPT !.sandbox = TRUE,
                      !.commands = <<[origin |-> 1, cmds |-> Commands(1)]>>],
     [EmptyDir EXCEPT !.sandbox = TRUE,
                      !.commands = <<[origin |-> 1, cmds |-> Commands(1)]>>,
                      !.results = <<[wellformed |-> FALSE, origin |-> 1,
                                     entries |-> <<>>]>>,
                      !.extra = {1}]}

\* service.rs:111 is reached with any working directory and any name
ReleaseInit ==
    /\ sandboxExists = TRUE
    /\ dirs \in [Uuids -> DirKinds]
    /\ uuids = {d \in Uuids : dirs[d].exists}
    /\ tmp_folder \in Uuids
    /\ mainpc = "release"
    /\ msgs = <<>>
    /\ inbox = <<>>
    /\ cur = 0
    /\ results = <<>>
    /\ tasks = [i \in MsgIds |-> [st |-> "none", body |-> <<>>]]
    /\ lock = 0
    /\ outbound = <<>>
    /\ phase = [i \in MsgIds |-> "None"]
    /\ ws = [i \in MsgIds |-> 0]
    /\ started = <<>>
    /\ runs = [i \in MsgIds |-> 0]
    /\ sends = [i \in MsgIds |-> 0]
    /\ run = NoRun
    /\ log = <<>>

\* service.rs:111 is reached once more, with any name
ReleaseAgain ==
    /\ mainpc = "parse"
    /\ Len(log) < MaxReleases
    /\ mainpc' = "release"
    /\ tmp_folder' \in Uuids
    /\ UNCHANGED <<fsVars, pubVars, run, log, msgs, inbox, cur, results, phase,
                   ws, started, runs>>

ReleaseNext ==
    \/ RemoveDirAll
    \/ ReleaseAgain

ReleaseSpec == ReleaseInit /\ [][ReleaseNext]_vars

\* ---- properties ---------------------------------------------------------

\* the FormData of message i
Form(i) == FromStrFormData(msgs[i].body).val

\* message i has been pulled from the stream
Consumed(i) == phase[i] \in {"Dispatched"} \cup Terminal

\* the messages whose ResponseData the broker stored
Published == {outbound[k].origin : k \in 1..Len(outbound)}

C2_MalformedDropped ==
    \A i \in 1..Len(msgs) :
        (~msgs[i].body.wellformed /\ Consumed(i)) =>
            (phase[i] # "Panicked" /\ tasks[i].st = "none")

\* C3: once the orchestrator has stopped handling a job, the workspace
\* directory it was given no longer exists.
C3_WorkspaceReleased ==
    \A i \in MsgIds :
        (phase[i] \in Terminal /\ ws[i] # 0) => ~dirs[ws[i]].exists

\* C4: a job whose isolation runtime was invoked never crashes the loop,
\* whatever the runtime left behind.
C4_ExecutionFailureDropsJob ==
    \A i \in MsgIds : runs[i] > 0 => phase[i] # "Panicked"

\* C5: every published JobResult has one CommandResult per command of its
\* job, in the order of the commands.
C5_OneResultPerCommand ==
    \A k \in 1..Len(outbound) :
        LET r == outbound[k].sandbox_results
            c == Form(outbound[k].origin).commands
        IN  /\ Len(r) = Len(c)
            /\ \A n \in 1..Len(r) : r[n].cmd = c[n]

\* C6: every ResponseData, spawned or published, carries the submit_id of
\* the message whose commands produced its results.
C6_SubmitIdOfOrigin ==
    /\ \A k \in 1..Len(outbound) :
          outbound[k].submit_id = Form(outbound[k].origin).submit_id
    /\ \A i \in MsgIds :
          tasks[i].st # "none" =>
              /\ tasks[i].body[1].origin = i
              /\ tasks[i].body[1].submit_id = Form(i).submit_id

\* results of two submissions with different identifiers are published
C6_Witness ==
    \E k, l \in 1..Len(outbound) : outbound[k].submit_id # outbound[l].submit_id

\* C7: at most one publish task is between the start of its send and the
\* broker's answer.
C7_SendsExclusive ==
    Cardinality({i \in MsgIds : tasks[i].st = "sending"}) <= 1

\* a task is sending while another waits for the producer
C7_Witness ==
    \E i, j \in MsgIds : tasks[i].st = "sending" /\ tasks[j].st = "waiting"

\* C8: no two jobs are given the same workspace name, and a staged
\* workspace holds its baseline copy and its own commands file only.
C8_FreshWorkspace ==
    /\ \A i, j \in MsgIds :
          (i # j /\ ws[i] # 0 /\ ws[j] # 0) => ws[i] # ws[j]
    /\ mainpc = "exec" =>
          dirs[tmp_folder] = [exists |-> TRUE, sandbox |-> TRUE,
                              commands |-> <<CommandsYaml(cur)>>,
                              results |-> <<>>, extra |-> {}]

\* a job is staged while another job's workspace, with its files, is on disk
C8_Witness ==
    /\ mainpc = "exec"
    /\ \E d \in Uuids :
          d # tmp_folder /\ dirs[d].exists /\ dirs[d].results # <<>>

\* C9: jobs start in delivery order, every delivered message is either
\* pulled or still queued in order, and no FormData pulled was skipped.
C9_DeliveryOrder ==
    /\ \A k \in 1..(Len(started) - 1) : started[k] < started[k + 1]
    /\ cur <= Len(msgs)
    /\ inbox = [k \in 1..(Len(msgs) - cur) |-> cur + k]
    /\ \A i \in 1..cur : msgs[i].body.wellformed => i \in Range(started)

\* a second job is started after the first one was handled
C9_Witness ==
    /\ Len(started) = 2
    /\ phase[started[1]] \in Terminal
    /\ mainpc \in ServicePcs

\* C10: a failed publish was sent once for a job run once, is not stored,
\* does not hold the producer and has not crashed the loop; every
\* confirmed publish is stored.
C10_PublishFailureIsLocal ==
    /\ \A i \in MsgIds :
          tasks[i].st = "failed" =>
              /\ sends[i] = 1
              /\ runs[i] = 1
              /\ i \notin Published
              /\ lock # i
    /\ (\E i \in MsgIds : tasks[i].st = "failed") =>
          (mainpc = "panicked" => phase[cur] = "Panicked")
    /\ \A j \in MsgIds : tasks[j].st = "done" => j \in Published

\* after a failed publish the loop is alive and a later result is stored
C10_Witness ==
    /\ Alive
    /\ \E i, j \in MsgIds :
          i < j /\ tasks[i].st = "failed" /\ tasks[j].st = "done"

\* the results.yaml the runtime wrote in its last run is well-formed
RunWellFormed == run.text # <<>> /\ run.text[1].wellformed

\* C11: when the runtime left a well-formed results.yaml, whatever the
\* outcomes in it, the job succeeds and its publish task carries the
\* entries of the file unchanged; so does what the broker stored.
C11_OutcomesForwarded ==
    /\ (run.of # 0 /\ phase[run.of] \in Terminal /\ RunWellFormed) =>
          /\ phase[run.of] = "Succeeded"
          /\ tasks[run.of].st # "none"
          /\ tasks[run.of].body[1].sandbox_results = run.text[1].entries
    /\ \A k \in 1..Len(outbound) :
          outbound[k] = tasks[outbound[k].origin].body[1]

\* a result whose command ended in OtherError is stored by the broker
C11_Witness ==
    \E k \in 1..Len(outbound) :
        \E n \in 1..Len(outbound[k].sandbox_results) :
            outbound[k].sandbox_results[n].state = "OtherError"

\* C12: a job of a well-formed message that ends before the runtime is
\* invoked, with the template present, does not crash the loop.
C12_StagingFailureDropsJob ==
    \A i \in 1..Len(msgs) :
        (sandboxExists /\ msgs[i].body.wellformed /\ runs[i] = 0) =>
            phase[i] # "Panicked"

\* C13: with the template absent no workspace is created, the runtime is
\* never invoked, nothing is published, no job succeeds or is dropped, and
\* the first job that is started ends the process.
C13_TemplateMissingIsFatal ==
    ~sandboxExists =>
        /\ \A d \in Uuids : ~dirs[d].exists
        /\ \A i \in MsgIds :
              /\ ws[i] = 0
              /\ runs[i] = 0
              /\ tasks[i].st = "none"
              /\ phase[i] \notin {"Succeeded", "Dropped"}
        /\ outbound = <<>>
        /\ Len(started) <= 1
        /\ (started # <<>> /\ mainpc # "service") => mainpc = "panicked"

\* a job was started with the template absent and the process is over
C13_Witness ==
    /\ ~sandboxExists
    /\ started # <<>>
    /\ mainpc = "panicked"
    /\ FromStrFormData(msgs[cur].body).ok

\* C14: for every message the runtime is invoked at most once and at most
\* one send is attempted.
C14_NoRetry ==
    \A i \in MsgIds : runs[i] <= 1 /\ sends[i] <= 1

\* a publish has failed, the loop is idle and nothing is left to do
C14_Witness ==
    /\ mainpc = "next"
    /\ inbox = <<>>
    /\ Len(msgs) = MaxMsgs
    /\ \E i \in MsgIds : tasks[i].st = "failed" /\ sends[i] = 1 /\ runs[i] = 1
    /\ \A i \in MsgIds : tasks[i].st \notin {"waiting", "sending"}

\* C15: every job that succeeded has its ResponseData stored and confirmed
\* in the end.
C15_SucceededIsPublished ==
    \A i \in MsgIds : (phase[i] = "Succeeded") ~> (tasks[i].st = "done")

\* C16: release of a name that has no directory does not crash and leaves
\* the working directory as it was.
C16_ReleaseIdempotent ==
    [][(mainpc = "release" /\ mainpc' # "release" /\ ~dirs[tmp_folder].exists)
          => (mainpc' = "parse" /\ dirs' = dirs)]_vars

\* a name that was never staged has been released after another release
C16_Witness ==
    /\ mainpc = "parse"
    /\ Len(log) = 2
    /\ tmp_folder \notin uuids

\* C17: once a job whose runtime was invoked is over, it has succeeded
\* exactly if the results.yaml of that run is well-formed, whatever the
\* exit status of the run.
C17_ExitStatusIgnored ==
    (run.of # 0 /\ phase[run.of] \in Terminal) =>
        /\ (phase[run.of] = "Succeeded") = RunWellFormed
        /\ (tasks[run.of].st # "none") = RunWellFormed

\* a job succeeded although its runtime exited with a failure status
C17_Witness ==
    /\ run.of # 0
    /\ run.exit = "failure"
    /\ phase[run.of] = "Succeeded"

\* the workspace steps of one job, in the order of the code
JobSteps == <<"stage", "write", "run", "read", "remove">>

\* C18: the workspace steps done for a job are an initial part of stage,
\* write, run, read, remove, each done once, and they are all done before
\* the job succeeds.
C18_StepOrder ==
    /\ Len(log) <= Len(JobSteps)
    /\ \A k \in 1..Len(log) : log[k] = JobSteps[k]
    /\ (cur # 0 /\ phase[cur] = "Succeeded") => log = JobSteps
    /\ mainpc \in {"parse"} => log = JobSteps

\* a job has done all five steps and its workspace is gone
C18_Witness ==
    /\ log = JobSteps
    /\ mainpc = "parse"
    /\ ~dirs[tmp_folder].exists

\* C19: at most one job is between its dispatch and the end of
\* sandbox_service, and it is in flight only while the loop is inside
\* sandbox_service.
C19_OneJobInFlight ==
    /\ Cardinality({i \in MsgIds : phase[i] = "Dispatched"}) <= 1
    /\ \A d \in Uuids :
          (dirs[d].exists /\ dirs[d].commands # <<>> /\ dirs[d].results = <<>>
             /\ Alive) => (d = tmp_folder /\ mainpc \in {"exec", "read"})

\* the publish of a finished job is under way while a later job executes
C19_Witness ==
    /\ mainpc = "exec"
    /\ \E j \in MsgIds : j # cur /\ tasks[j].st = "sending"

\* C20: the producer is held only by a task that is sending, so after a
\* publish attempt has ended, failed or not, a waiting task can take it.
C20_LockReleased ==
    /\ lock # 0 => tasks[lock].st = "sending"
    /\ \A j \in MsgIds :
          (Alive /\ tasks[j].st = "waiting"
             /\ \A i \in MsgIds : tasks[i].st # "sending") => ENABLED Lock(j)

\* after a failed publish another task holds the producer
C20_Witness ==
    \E i, j \in MsgIds :
        i # j /\ tasks[i].st = "failed" /\ lock = j /\ tasks[j].st = "sending"
====
